---- MODULE Spec2Model ----
(***************************************************************************)
(* A model of the S3 transfer client of snowflake-connector-python         *)
(* (src/snowflake/connector/s3_storage_client.py): the multipart upload    *)
(* state machine, the probe (HEAD), and the per-attempt request signing,   *)
(* run by one driver task and one task per chunk.  The base class          *)
(* SnowflakeStorageClient and the credential holder are not part of the    *)
(* sources at hand; what the model needs of them (the bounded retry loop,  *)
(* the credential refresh, the upload driver) follows the specification.   *)
(***************************************************************************)
EXTENDS Integers, Sequences, FiniteSets, TLC

(* ------------------------------ bounds -------------------------------- *)

\* The most headers in a set handed to the canonicalization.
MaxHeaders == 3

\* The largest planned number of chunks (and so of concurrent chunk tasks).
MaxChunks == 2
\* The attempt ceiling of the retry loop (max_retry of the base class).
MaxRetry == 2
\* How many times the credentials can be renewed in one run.
MaxRefresh == 1
\* The largest planned number of chunks of a download.
MaxDownloadChunks == 3

(* --------------------------- program constants ------------------------ *)

None == "None"
\* The empty string that creds.get gives when the credentials hold no
\* AWS_TOKEN, written as a version that no credentials have.
EmptyToken == -2
EXPIRED_TOKEN == "ExpiredToken"
META_PREFIX == "x-amz-meta-"
SFC_DIGEST == "sfc-digest"
AMZ_MATDESC == "x-amz-matdesc"
AMZ_KEY == "x-amz-key"
AMZ_IV == "x-amz-iv"

VARIABLES
    credentials,    \* the shared StorageCredential: creds and its timestamp
    num_of_chunks,  \* the chunk plan of this transfer
    upload_id,      \* self.upload_id
    etags,          \* self.etags: none, or one slot per chunk (0-based)
    retry_count,    \* self.retry_count, by retry key
    result_status,  \* meta.result_status
    header,         \* what get_file_header gave its caller
    task,           \* the driver task and the chunk tasks: position and locals
    sent,           \* the requests put on the wire so far
    remote_id,      \* the upload id the service assigned, none before that
    phase,          \* the driver's position in the transfer
    error,          \* the failure surfaced to the caller of the transfer
    stage_info,               \* stage_info: location, region, endPoint
    use_accelerate_endpoint,  \* the constructor's use_accelerate_endpoint
    use_s3_regional_url,      \* self.use_s3_regional_url
    endpoint,                 \* self.endpoint
    encryption_metadata,      \* self.encryption_metadata, or none
    meta,                     \* the job record's fields the client reads
    chunk_size,               \* self.chunk_size
    remote,         \* the object at the store, as this client's upload left it
    downloaded,     \* what write_downloaded_chunk has written, by chunk
    files,          \* the local file system: content by path
    dst_file_size,  \* meta.dst_file_size
    canonical_headers,  \* the headers handed to the canonicalization
    canonicalized       \* what the canonicalization gave for them

\* The fields set at construction and not changed after it.
client == <<stage_info, use_accelerate_endpoint, use_s3_regional_url, endpoint,
            encryption_metadata, meta, chunk_size>>
\* The stored object and the local files.
storage == <<remote, downloaded, files, dst_file_size>>
\* The input and the result of the header canonicalization.
signer == <<canonical_headers, canonicalized>>

vars == <<credentials, num_of_chunks, upload_id, etags, retry_count,
          result_status, header, task, sent, remote_id, phase, error,
          client, storage, signer>>

(* ------------------------------ tasks --------------------------------- *)

\* Chunk task i runs upload_chunk(i); the driver task runs everything else.
Chunks == 0 .. (MaxChunks - 1)
Main == MaxChunks
Tasks == Chunks \cup {Main}

\* Retry keys: "HEAD", "Initiate", "Complete", "Abort", and the chunk index.
ChunkKey(i) == ToString(i)
DownloadChunks == 0 .. (MaxDownloadChunks - 1)
RetryKeys ==
    {"HEAD", "Initiate", "Complete", "Abort"}
      \cup {ChunkKey(i) : i \in Chunks \cup DownloadChunks}

(* ----------------------------- responses ------------------------------ *)

NoResponse ==
    [net_error |-> FALSE, status_code |-> 0, text |-> "", ETag |-> None,
     content |-> <<>>, digest |-> None, content_length |-> <<>>,
     key |-> None, iv |-> None, matdesc |-> None]

NetError == [NoResponse EXCEPT !.net_error = TRUE]

Http(status, text) == [NoResponse EXCEPT !.status_code = status, !.text = text]

\* Bodies of a 400 answer: empty, blank, not XML, an error document without a
\* Code element, and error documents with a Code.
XmlError(code) == "<Error><Code>" \o code \o "</Code></Error>"
ErrorBodies ==
    {"", " ", "not xml", "<Error></Error>", XmlError(EXPIRED_TOKEN), XmlError("AccessDenied")}

UploadIds == {"u1", "u2"}
Digests == {None, "d1"}
ContentLengths == {<<7>>, <<1, 2>>}

\* The ETag the service gives an uploaded part: a digest of the part's bytes,
\* so one value per retry key of a chunk.
ETagOf(retry_id) == "etag-" \o retry_id

\* The encryption headers of an object some other client stored: none of
\* them, all three, or the iv and the description without the key.
ForeignEncryption ==
    {[key |-> None, iv |-> None, matdesc |-> None],
     [key |-> "k9", iv |-> "iv9", matdesc |-> "md9"],
     [key |-> None, iv |-> "iv9", matdesc |-> "md9"]}

\* metadata.get(name) on the headers of an answer to HEAD: the header's text,
\* or none when the object has no such metadata.
MetadataGet(metadata, name) ==
    IF \E i \in 1 .. Len(metadata) : metadata[i][1] = name
    THEN metadata[CHOOSE i \in 1 .. Len(metadata) : metadata[i][1] = name][2].text
    ELSE None

\* The answers 200 to HEAD: the metadata stored with the object this client
\* uploaded, or that of an object some other client stored.
HeadSuccess ==
    IF remote.uploaded
    THEN {[Http(200, "") EXCEPT
             !.digest = MetadataGet(remote.metadata, META_PREFIX \o SFC_DIGEST),
             !.key = MetadataGet(remote.metadata, META_PREFIX \o AMZ_KEY),
             !.iv = MetadataGet(remote.metadata, META_PREFIX \o AMZ_IV),
             !.matdesc = MetadataGet(remote.metadata, META_PREFIX \o AMZ_MATDESC),
             !.content_length = n] : n \in ContentLengths}
    ELSE {[Http(200, "") EXCEPT !.digest = d, !.content_length = n,
                                !.key = e.key, !.iv = e.iv, !.matdesc = e.matdesc] :
                d \in Digests, n \in ContentLengths, e \in ForeignEncryption}

\* A Range header that names no last byte.
OpenEnded == -1

\* The number a string of decimal digits writes.
Digit(c) == CHOOSE d \in 0 .. 9 : ToString(d) = c
RECURSIVE Decimal(_)
Decimal(str) ==
    IF str = "" THEN 0
    ELSE 10 * Decimal(SubSeq(str, 1, Len(str) - 1))
            + Digit(SubSeq(str, Len(str), Len(str)))

\* The byte range a Range header names, as the store reads it:
\* "bytes=first-last", or "bytes=first-" for all bytes from first on.
ParseRange(text) ==
    LET range == SubSeq(text, Len("bytes=") + 1, Len(text))
        dash == CHOOSE i \in 1 .. Len(range) : SubSeq(range, i, i) = "-"
    IN  [first |-> Decimal(SubSeq(range, 1, dash - 1)),
         last |-> IF dash = Len(range) THEN OpenEnded
                  ELSE Decimal(SubSeq(range, dash + 1, Len(range)))]

\* The offsets of the object's bytes that a range takes in.
BytesOf(range, size) ==
    {o \in 0 .. (size - 1) :
        o >= range.first /\ (range.last = OpenEnded \/ o <= range.last)}

\* The answers to GET that carry content: 200 with the whole object, and for
\* a request with a Range header 206 with the bytes of the range (416 when the
\* range starts past the end); a request without one may meet 206 as well.
GetAnswers(headers) ==
    LET whole == remote.content
        size == Len(whole)
    IN  {[Http(200, "") EXCEPT !.content = whole]}
          \cup IF headers = <<>>
               THEN {[Http(206, "") EXCEPT !.content = whole]}
               ELSE LET range == ParseRange(headers[1][2].text)
                        offsets == BytesOf(range, size)
                    IN  IF offsets = {} THEN {Http(416, "")}
                        ELSE {[Http(206, "") EXCEPT !.content =
                                 [k \in 1 .. Cardinality(offsets) |->
                                     whole[range.first + k]]]}

\* The answers with status 200 (for GET, those that carry content), by the
\* method that sent the request.
Success(method, retry_id) ==
    CASE method = "get_file_header" -> HeadSuccess
      [] method = "download_chunk" -> GetAnswers(task[Main].headers)
      [] method = "_initiate_multipart_upload" ->
            {[Http(200, "") EXCEPT !.content = <<"bucket", "key", u>>] : u \in UploadIds}
      [] method = "_upload_chunk" ->
            {[Http(200, "") EXCEPT !.ETag = ETagOf(retry_id)]}
      [] OTHER -> {Http(200, "")}

\* The statuses an attempt can meet besides 200, 400 and 403: a success that
\* is not 200, a redirect, a server error, and, for the probe, not found.
OtherStatuses(method) ==
    IF method = "get_file_header" THEN {204, 301, 404, 500} ELSE {204, 301, 500}

\* Every answer an attempt can meet: a network failure, 200, the statuses
\* above, 400 with each body, and 403 with a body that names the expired-token
\* code.  The service answers 400 ExpiredToken only for a token that can still
\* be renewed within the bound.
Responses(method, retry_id, token) ==
    {NetError}
      \cup Success(method, retry_id)
      \cup {Http(s, "") : s \in OtherStatuses(method)}
      \cup {Http(403, XmlError(EXPIRED_TOKEN))}
      \cup {Http(400, b) : b \in {x \in ErrorBodies :
                    x = XmlError(EXPIRED_TOKEN) => token \in 0 .. (MaxRefresh - 1)}}

(* ------------------------- response helpers --------------------------- *)

\* requests.Response.raise_for_status raises for 4xx and 5xx only.
RaisesForStatus(response) ==
    response.status_code >= 400 /\ response.status_code < 600

\* str.isspace on the bodies above.
IsSpace(text) == text = " "

\* ET.fromstring(message), then err.find("Code").text, on the bodies above:
\* a parse error, no Code element (find gives None), or the code's text.
CodeOf(text) ==
    CASE text = "not xml" -> "ParseError"
      [] text = "<Error></Error>" -> "AttributeError"
      [] text = XmlError(EXPIRED_TOKEN) -> EXPIRED_TOKEN
      [] text = XmlError("AccessDenied") -> "AccessDenied"
      [] OTHER -> "ParseError"

\* _has_expired_token without its test of the status.
HasExpiredToken_AnyStatus(response) ==
    IF response.text = "" \/ IsSpace(response.text) THEN "False"
    ELSE IF CodeOf(response.text) \in {"ParseError", "AttributeError"}
         THEN CodeOf(response.text)
         ELSE IF CodeOf(response.text) = EXPIRED_TOKEN THEN "True" ELSE "False"

\* _has_expired_token: "True", "False", or the exception it raises.
HasExpiredToken(response) ==
    IF response.status_code /= 400 THEN "False"
    ELSE IF response.text = "" \/ IsSpace(response.text) THEN "False"
    ELSE IF CodeOf(response.text) \in {"ParseError", "AttributeError"}
         THEN CodeOf(response.text)
         ELSE IF CodeOf(response.text) = EXPIRED_TOKEN THEN "True" ELSE "False"

\* The retry policy's transient answers: a network failure or a 5xx status.
IsTransient(response) ==
    response.net_error \/ (response.status_code >= 500 /\ response.status_code < 600)

(* ------------------- strings and header canonicalization ------------- *)

\* The characters of header names and values, in the order of their code
\* points (the order in which Python compares strings).
Ascii == "\n %-./0123456789:;=ABCDEFGHIJKLMNOPQRSTUVWXYZ_abcdefghijklmnopqrstuvwxyz"
Char(str, i) == SubSeq(str, i, i)
ord == [c \in {Char(Ascii, i) : i \in 1 .. Len(Ascii)} |->
            CHOOSE i \in 1 .. Len(Ascii) : Char(Ascii, i) = c]

\* str.lower.
RECURSIVE lower(_)
lower(str) ==
    IF str = "" THEN ""
    ELSE (IF ord[Head(str)] >= ord["A"] /\ ord[Head(str)] <= ord["Z"]
          THEN Char(Ascii, ord[Head(str)] + (ord["a"] - ord["A"]))
          ELSE Head(str)) \o lower(Tail(str))

\* a < b for strings.
RECURSIVE StrLess(_, _)
StrLess(a, b) ==
    IF b = "" THEN FALSE
    ELSE IF a = "" THEN TRUE
    ELSE IF Head(a) = Head(b) THEN StrLess(Tail(a), Tail(b))
    ELSE ord[Head(a)] < ord[Head(b)]

\* sorted() of a list of distinct strings.
RECURSIVE Insert(_, _)
Insert(str, list) ==
    IF list = <<>> THEN <<str>>
    ELSE IF StrLess(str, Head(list)) THEN <<str>> \o list
    ELSE <<Head(list)>> \o Insert(str, Tail(list))

RECURSIVE sorted(_)
sorted(list) == IF list = <<>> THEN <<>> ELSE Insert(Head(list), sorted(Tail(list)))

\* sep.join(list).
RECURSIVE join(_, _)
join(sep, list) ==
    IF list = <<>> THEN ""
    ELSE IF Len(list) = 1 THEN Head(list)
    ELSE Head(list) \o sep \o join(sep, Tail(list))

\* str.strip(), of blanks and newlines.
IsBlank(c) == c = " " \/ c = "\n"
RECURSIVE LStrip(_)
LStrip(str) == IF str /= "" /\ IsBlank(Head(str)) THEN LStrip(Tail(str)) ELSE str
RECURSIVE RStrip(_)
RStrip(str) ==
    IF str /= "" /\ IsBlank(Char(str, Len(str)))
    THEN RStrip(SubSeq(str, 1, Len(str) - 1)) ELSE str
strip(str) == RStrip(LStrip(str))

\* RE_MULTIPLE_SPACES.sub(" ", str): every run of spaces becomes one space.
RECURSIVE CollapseSpaces(_)
CollapseSpaces(str) ==
    IF Len(str) < 2 THEN str
    ELSE IF Head(str) = " " /\ Head(Tail(str)) = " " THEN CollapseSpaces(Tail(str))
    ELSE Head(str) \o CollapseSpaces(Tail(str))

\* k.replace("\n", " ").
RECURSIVE ReplaceNewlines(_)
ReplaceNewlines(str) ==
    IF str = "" THEN ""
    ELSE (IF Head(str) = "\n" THEN " " ELSE Head(str)) \o ReplaceNewlines(Tail(str))

\* A dict is the list of its items, <<key, value>>, in insertion order.
Keys(dict) == [i \in 1 .. Len(dict) |-> dict[i][1]]
HasKey(dict, k) == \E i \in 1 .. Len(dict) : dict[i][1] = k
Get(dict, k) == dict[CHOOSE i \in 1 .. Len(dict) : dict[i][1] = k][2]
Put(dict, k, v) ==
    IF HasKey(dict, k)
    THEN [i \in 1 .. Len(dict) |-> IF dict[i][1] = k THEN <<k, v>> ELSE dict[i]]
    ELSE Append(dict, <<k, v>>)

\* dict.update(other): the keys dict has keep their place and take the
\* value of other, the keys it has not are added in the order of other.
Update(dict, other) ==
    [i \in 1 .. Len(dict) |->
        IF HasKey(other, dict[i][1]) THEN <<dict[i][1], Get(other, dict[i][1])>>
        ELSE dict[i]]
      \o SelectSeq(other, LAMBDA item : ~HasKey(dict, item[1]))

\* A header value is a string or a list of strings.
Str(text) == [is_list |-> FALSE, text |-> text, items |-> <<>>]
List(items) == [is_list |-> TRUE, text |-> "", items |-> items]

\* {k.lower(): v for k, v in headers.items()}.
RECURSIVE LowKeyDict(_)
LowKeyDict(headers) ==
    IF headers = <<>> THEN <<>>
    ELSE LET front == SubSeq(headers, 1, Len(headers) - 1)
             last == headers[Len(headers)]
         IN  Put(LowKeyDict(front), lower(last[1]), last[2])

\* The canonical line of one header.
CanonicalLine(k, v) ==
    strip(ReplaceNewlines(k)) \o ":"
        \o CollapseSpaces(strip(IF v.is_list THEN join(",", v.items) ELSE v.text))

\* _construct_canonicalized_and_signed_headers: the names are lower-cased in
\* low_key_dict, but it is the names as given that are sorted and then looked
\* up there; a name that is not a key of low_key_dict is a KeyError.
SortedHeaders(headers) == sorted(Keys(headers))

RaisesKeyError(headers) ==
    LET low_keys == {lower(headers[i][1]) : i \in 1 .. Len(headers)}
    IN  \E i \in 1 .. Len(headers) : headers[i][1] \notin low_keys

CanonicalHeaders(headers) ==
    LET low_key_dict == LowKeyDict(headers)
        sorted_headers == SortedHeaders(headers)
        res == [i \in 1 .. Len(sorted_headers) |->
                    CanonicalLine(sorted_headers[i], Get(low_key_dict, sorted_headers[i]))]
        ans == join("\n", res)
    IN  IF ans /= "" THEN ans \o "\n" ELSE ans

ConstructCanonicalizedAndSignedHeaders(headers) ==
    IF RaisesKeyError(headers)
    THEN [state |-> "raised", exc |-> "KeyError", ans |-> "", signed_headers |-> ""]
    ELSE [state |-> "returned", exc |-> None,
          ans |-> CanonicalHeaders(headers),
          signed_headers |-> join(";", SortedHeaders(headers))]

(* ------------------------------ state --------------------------------- *)

NoAttempt == [token |-> -1, secret |-> -1, key_id |-> -1]

IdleTask ==
    [pc |-> "idle", method |-> "", verb |-> "", retry_id |-> "",
     query |-> {}, data |-> <<>>, x_amz_headers |-> <<>>, headers |-> <<>>,
     cur_timestamp |-> -1, token |-> -1, secret |-> -1, key_id |-> -1,
     prev |-> NoAttempt, sent_ts |-> -1, refreshed |-> FALSE, attempts |-> 0,
     response |-> NoResponse, exc |-> None]

\* _hash_bytes_hex(data).decode(): SHA-256 as a one-to-one function of the
\* payload.
HashBytesHex(data) == "sha256(" \o ToString(data) \o ")"

\* A task at the call of _send_request_with_authentication_and_retry: the
\* digest of the payload goes into x_amz_headers before the first attempt.
NewRequest(method, verb, retry_id, query, data, x_amz_headers, headers) ==
    [IdleTask EXCEPT !.pc = "begin", !.method = method, !.verb = verb,
                     !.retry_id = retry_id, !.query = query, !.data = data,
                     !.x_amz_headers = Put(x_amz_headers, "x-amz-content-sha256",
                                           Str(HashBytesHex(data))),
                     !.headers = headers]

\* A task whose method has ended: what it returned or raised, and of its last
\* answer the status and the ETag.
Ended(t, pc, exc) ==
    [IdleTask EXCEPT !.pc = pc, !.method = task[t].method, !.retry_id = task[t].retry_id,
                     !.exc = exc,
                     !.response = [NoResponse EXCEPT
                                     !.status_code = task[t].response.status_code,
                                     !.ETag = task[t].response.ETag]]

\* Encryption metadata of the job: none, or the triple.
NoEncryption == [is_none |-> TRUE, key |-> None, iv |-> None, matdesc |-> None]
SomeEncryption == [is_none |-> FALSE, key |-> "k1", iv |-> "iv1", matdesc |-> "md1"]

NoHeader ==
    [state |-> "not called", is_none |-> TRUE, digest |-> None, content_length |-> 0,
     encryption_metadata |-> NoEncryption]

\* Python's truth value of a string or none.
Truthy(x) == x /= None /\ x /= ""

\* _extract_bucket_name_and_path(stage_location).bucket_name: the location up
\* to its first "/".
RECURSIVE BucketName(_)
BucketName(stage_location) ==
    IF stage_location = "" \/ Head(stage_location) = "/" THEN ""
    ELSE Head(stage_location) \o BucketName(Tail(stage_location))

\* The endpoint with the accelerate flag tested before the service's endpoint.
Endpoint_AccelerateFirst(si, accelerate, regional) ==
    IF accelerate
    THEN "https://" \o BucketName(si.location) \o ".s3-accelerate.amazonaws.com"
    ELSE IF Truthy(si.endPoint)
    THEN "https://" \o BucketName(si.location) \o "." \o si.endPoint
    ELSE IF regional
    THEN "https://" \o BucketName(si.location) \o ".s3." \o si.region \o ".amazonaws.com"
    ELSE "https://" \o BucketName(si.location) \o ".s3.amazonaws.com"

\* self.endpoint as __init__ sets it.
Endpoint(si, accelerate, regional) ==
    IF Truthy(si.endPoint)
    THEN "https://" \o BucketName(si.location) \o "." \o si.endPoint
    ELSE IF accelerate
    THEN "https://" \o BucketName(si.location) \o ".s3-accelerate.amazonaws.com"
    ELSE IF regional
    THEN "https://" \o BucketName(si.location) \o ".s3." \o si.region \o ".amazonaws.com"
    ELSE "https://" \o BucketName(si.location) \o ".s3.amazonaws.com"

\* The credentials as first handed to the client, with or without a session
\* token; the values are written by the version of the credentials.
StorageCredential(with_token) ==
    [creds |-> IF with_token
               THEN [AWS_KEY_ID |-> 0, AWS_SECRET_KEY |-> 0, AWS_TOKEN |-> 0]
               ELSE [AWS_KEY_ID |-> 0, AWS_SECRET_KEY |-> 0],
     timestamp |-> 0]

\* The transfer's own state after construction.
InitTransfer(with_token) ==
    /\ credentials = StorageCredential(with_token)
    /\ num_of_chunks \in 1 .. MaxChunks
    /\ upload_id = None
    /\ etags = [is_none |-> TRUE, list |-> <<>>]
    /\ retry_count = [k \in RetryKeys |-> 0]
    /\ result_status = "PENDING"
    /\ header = NoHeader
    /\ task = [t \in Tasks |-> IdleTask]
    /\ sent = {}
    /\ remote_id = None
    /\ phase = "new"
    /\ error = None

\* The stage of the job, and the names of its files.
StageLocation == "bucket/dir"
StageRegion == "us-west-2"
DstFileName == "/f 1.gz"
SrcFileName == "f 1.gz"

\* The endpoints a stage can name: none, empty, or a host of the service.
EndPoints == {None, "", "s3-fips.us-gov-west-1.amazonaws.com"}

\* __init__ for a stage, its flags, and the job's digest and encryption.
InitClient(endPoint, accelerate, regional, digest, encryption) ==
    /\ stage_info = [location |-> StageLocation, region |-> StageRegion,
                     endPoint |-> endPoint]
    /\ use_accelerate_endpoint = accelerate
    /\ use_s3_regional_url = regional
    /\ endpoint = Endpoint(stage_info, accelerate, regional)
    /\ encryption_metadata = encryption
    /\ meta = [sha256_digest |-> digest, dst_file_name |-> DstFileName,
               src_file_name |-> SrcFileName]
    /\ chunk_size = 1

\* Nothing uploaded, downloaded or written yet.
InitStorage ==
    /\ remote = [uploaded |-> FALSE, metadata |-> <<>>, pending |-> <<>>,
                 content |-> <<>>]
    /\ downloaded = <<>>
    /\ files = <<>>
    /\ dst_file_size = -1

InitSigner ==
    /\ canonical_headers = <<>>
    /\ canonicalized = [state |-> "not called", exc |-> None, ans |-> "",
                        signed_headers |-> ""]

Init ==
    /\ InitTransfer(TRUE)
    /\ InitClient(None, FALSE, FALSE, "d1", SomeEncryption)
    /\ InitStorage
    /\ InitSigner

(* -------------------- signing and sending one request ----------------- *)

Set(t, new) == task' = [task EXCEPT ![t] = new]

\* HMAC-SHA-256 and the signing-key derivation, as uninterpreted injective
\* functions of their inputs.
SigningKey(secret) == <<"aws4_request", secret>>
Signature(signing_key, token) == [key |-> signing_key, token |-> token]

\* The security token computed once per request, outside the callback.
SecurityToken_SignedOnce(t) ==
    IF task[t].attempts > 0 THEN task[t].token ELSE credentials.creds.AWS_TOKEN

\* The value the callback reads for x-amz-security-token:
\* creds.get("AWS_TOKEN", "").
SecurityToken(t) ==
    IF "AWS_TOKEN" \in DOMAIN credentials.creds
    THEN credentials.creds.AWS_TOKEN
    ELSE EmptyToken

\* The retry loop's head without the attempt ceiling.
BeginAttempt_NoCeiling(t) ==
    /\ task[t].pc = "begin"
    /\ Set(t, [task[t] EXCEPT
            !.pc = "sign_token",
            !.cur_timestamp = credentials.timestamp,
            !.prev = IF task[t].attempts > 0
                     THEN [token |-> task[t].token, secret |-> task[t].secret,
                           key_id |-> task[t].key_id]
                     ELSE NoAttempt,
            !.refreshed = task[t].attempts > 0 /\ credentials.timestamp > task[t].sent_ts])
    /\ UNCHANGED <<credentials, num_of_chunks, upload_id, etags, retry_count,
                   result_status, header, sent, remote_id, phase, error>>
    /\ UNCHANGED <<client, storage, signer>>

\* The retry loop's head: the attempt ceiling of the retry key, then the
\* timestamp of the credentials the attempt starts from.
BeginAttempt(t) ==
    /\ task[t].pc = "begin"
    /\ IF retry_count[task[t].retry_id] < MaxRetry
       THEN Set(t, [task[t] EXCEPT
                !.pc = "sign_token",
                !.cur_timestamp = credentials.timestamp,
                !.prev = IF task[t].attempts > 0
                         THEN [token |-> task[t].token, secret |-> task[t].secret,
                               key_id |-> task[t].key_id]
                         ELSE NoAttempt,
                !.refreshed = task[t].attempts > 0 /\ credentials.timestamp > task[t].sent_ts])
       ELSE Set(t, [task[t] EXCEPT !.pc = "handle", !.exc = "RequestExceedMaxRetryError"])
    /\ UNCHANGED <<credentials, num_of_chunks, upload_id, etags, retry_count,
                   result_status, header, sent, remote_id, phase, error>>
    /\ UNCHANGED <<client, storage, signer>>

\* _extract_bucket_name_and_path(stage_location).path: what follows the first
\* "/", ended by a "/" unless it is empty.
RECURSIVE AfterFirstSlash(_)
AfterFirstSlash(stage_location) ==
    IF stage_location = "" THEN ""
    ELSE IF Head(stage_location) = "/" THEN Tail(stage_location)
    ELSE AfterFirstSlash(Tail(stage_location))

S3Path(stage_location) ==
    LET path == AfterFirstSlash(stage_location)
    IN  IF path /= "" /\ SubSeq(path, Len(path), Len(path)) /= "/"
        THEN path \o "/" ELSE path

\* str.lstrip("/").
RECURSIVE LStripSlash(_)
LStripSlash(name) ==
    IF name /= "" /\ Head(name) = "/" THEN LStripSlash(Tail(name)) ELSE name

\* urllib's quote on the characters of the names here: a space is escaped,
\* letters, digits, ".", "-", "_" and "/" are kept.
RECURSIVE quote(_)
quote(path) ==
    IF path = "" THEN ""
    ELSE (IF Head(path) = " " THEN "%20" ELSE Head(path)) \o quote(Tail(path))

\* The url of the object a method works on, without its query.
Path(stage_location, file_name) == quote(S3Path(stage_location) \o LStripSlash(file_name))

\* The paths of the job's files at its stage, worked out once.
PathOf ==
    [stage_location \in {StageLocation}, file_name \in {DstFileName, SrcFileName} |->
        Path(stage_location, file_name)]

Url(file_name) == endpoint \o "/" \o PathOf[stage_info.location, file_name]

\* The file a method names: the probe's filename, the upload's destination,
\* the download's source.
FileOf(method) ==
    IF method = "download_chunk" THEN meta.src_file_name ELSE meta.dst_file_name

\* The request an attempt puts on the wire.
Request(t) ==
    [url |-> Url(FileOf(task[t].method)),
     verb |-> task[t].verb, query |-> task[t].query, data |-> task[t].data,
     range |-> IF HasKey(task[t].headers, "Range")
               THEN Get(task[t].headers, "Range").text ELSE None]

\* urlparse(url).hostname: what stands between "//" and the next "/", in
\* lower case.
RECURSIVE UpToSlash(_)
UpToSlash(str) ==
    IF str = "" \/ Head(str) = "/" THEN "" ELSE Head(str) \o UpToSlash(Tail(str))

RECURSIVE AfterScheme(_)
AfterScheme(url) ==
    IF Len(url) < 2 THEN ""
    ELSE IF SubSeq(url, 1, 2) = "//" THEN SubSeq(url, 3, Len(url))
    ELSE AfterScheme(Tail(url))

\* The urls a client of the job's stage can build, and the host name of
\* each, worked out once.
Urls ==
    {Endpoint([location |-> StageLocation, region |-> StageRegion, endPoint |-> e],
              accelerate, regional) \o "/" \o PathOf[StageLocation, file_name] :
        e \in EndPoints, accelerate \in BOOLEAN, regional \in BOOLEAN,
        file_name \in {DstFileName, SrcFileName}}
HostnameOf == [url \in Urls |-> lower(UpToSlash(AfterScheme(url)))]

Hostname(url) == HostnameOf[url]

\* A credential value as the text of a header.
TokenText(value) == IF value = EmptyToken THEN "" ELSE "token-v" \o ToString(value)

\* x_amz_headers without the security token when the credentials hold none.
XAmzHeaders_TokenOmitted(t) ==
    Update(task[t].x_amz_headers,
           <<<<"x-amz-date", Str("20211104T000000Z")>>>>
             \o (IF SecurityToken(t) = EmptyToken THEN <<>>
                 ELSE <<<<"x-amz-security-token", Str(TokenText(SecurityToken(t)))>>>>)
             \o <<<<"host", Str(Hostname(Url(FileOf(task[t].method))))>>>>)

\* x_amz_headers as the callback of task t's attempt leaves it: the date,
\* the security token it reads, and the host, each written at its key.
XAmzHeaders(t) ==
    Update(task[t].x_amz_headers,
           <<<<"x-amz-date", Str("20211104T000000Z")>>,
             <<"x-amz-security-token", Str(TokenText(SecurityToken(t)))>>,
             <<"host", Str(Hostname(Url(FileOf(task[t].method))))>>>>)

\* generate_authenticated_url_and_args_v4, first read of the credentials: the
\* date, the security token and the host are written into x_amz_headers.
SignToken(t) ==
    /\ task[t].pc = "sign_token"
    /\ Set(t, [task[t] EXCEPT !.pc = "sign_secret", !.token = SecurityToken(t),
                              !.x_amz_headers = XAmzHeaders(t)])
    /\ UNCHANGED <<credentials, num_of_chunks, upload_id, etags, retry_count,
                   result_status, header, sent, remote_id, phase, error>>
    /\ UNCHANGED <<client, storage, signer>>

\* generate_authenticated_url_and_args_v4, second read: the secret key.
SignSecret(t) ==
    /\ task[t].pc = "sign_secret"
    /\ Set(t, [task[t] EXCEPT !.pc = "sign_key",
                              !.secret = credentials.creds.AWS_SECRET_KEY])
    /\ UNCHANGED <<credentials, num_of_chunks, upload_id, etags, retry_count,
                   result_status, header, sent, remote_id, phase, error>>
    /\ UNCHANGED <<client, storage, signer>>

\* signed_headers of task t's attempt, as the canonicalization of
\* x_amz_headers gives it.
SignedHeaders(t) == join(";", SortedHeaders(task[t].x_amz_headers))

\* The Authorization header of the attempt task t has signed.
Authorization(t) ==
    [Credential |-> task[t].key_id,
     Signature |-> Signature(SigningKey(task[t].secret), task[t].token)]

\* rest_args["headers"] of task t's attempt: the caller's headers, updated
\* with x_amz_headers, and the Authorization header.
RestHeaders(t) ==
    Put(Update(task[t].headers, task[t].x_amz_headers),
        "Authorization", Authorization(t))

\* The object metadata among the headers of a request: the headers under the
\* reserved prefix.
ObjectMetadata(headers) ==
    SelectSeq(headers, LAMBDA item :
        Len(item[1]) >= Len(META_PREFIX)
            /\ SubSeq(item[1], 1, Len(META_PREFIX)) = META_PREFIX)

\* The object at the store once response r has answered the request of task
\* t: one PUT stores the object with the metadata of the request; a multipart
\* upload holds the metadata of its initiation until it is completed.
Stored(t, r) ==
    IF r.net_error \/ r.status_code /= 200 THEN remote
    ELSE IF task[t].method = "_upload_chunk" /\ num_of_chunks = 1
    THEN [remote EXCEPT !.uploaded = TRUE,
                        !.metadata = ObjectMetadata(RestHeaders(t))]
    ELSE IF task[t].method = "_initiate_multipart_upload"
    THEN [remote EXCEPT !.pending = ObjectMetadata(RestHeaders(t))]
    ELSE IF task[t].method = "_complete_multipart_upload"
    THEN [remote EXCEPT !.uploaded = TRUE, !.metadata = remote.pending]
    ELSE remote

\* What the retry loop does with an answer.
Classify(response) ==
    IF IsTransient(response) THEN "retry"
    ELSE IF HasExpiredToken(response) = "True" THEN "refresh"
    ELSE IF HasExpiredToken(response) = "False" THEN "return"
    ELSE "raise"

\* generate_authenticated_url_and_args_v4, third read (the key id), and the
\* attempt itself: the request goes out and its answer is classified.
SignAndSend(t) ==
    /\ task[t].pc = "sign_key"
    /\ sent' = sent \cup {Request(t)}
    /\ \E r \in Responses(task[t].method, task[t].retry_id, task[t].token) :
        LET c == Classify(r)
            base == [task[t] EXCEPT !.key_id = credentials.creds.AWS_KEY_ID,
                                    !.sent_ts = credentials.timestamp,
                                    !.attempts = 1,
                                    !.response = r]
        IN  /\ Set(t, [base EXCEPT
                    !.pc = CASE c = "retry" -> "begin"
                             [] c = "refresh" -> "refresh"
                             [] OTHER -> "handle",
                    !.exc = IF c = "raise" THEN HasExpiredToken(r) ELSE None])
            /\ retry_count' = IF c = "retry"
                              THEN [retry_count EXCEPT ![task[t].retry_id] = @ + 1]
                              ELSE retry_count
            /\ remote_id' = IF task[t].method = "_initiate_multipart_upload"
                               /\ ~r.net_error /\ r.status_code = 200
                            THEN r.content[3]
                            ELSE remote_id
            /\ remote' = Stored(t, r)
    /\ UNCHANGED <<credentials, num_of_chunks, upload_id, etags,
                   result_status, header, phase, error>>
    /\ UNCHANGED <<client, downloaded, files, dst_file_size, signer>>

\* credentials.update(cur_timestamp): one renewal per expiry, applied at once
\* to every field; a task whose attempt started before the last renewal skips.
RefreshCredentials(t) ==
    /\ task[t].pc = "refresh"
    /\ credentials' =
         IF task[t].cur_timestamp < credentials.timestamp
         THEN credentials
         ELSE [creds |-> [k \in DOMAIN credentials.creds |-> credentials.timestamp + 1],
               timestamp |-> credentials.timestamp + 1]
    /\ Set(t, [task[t] EXCEPT !.pc = "begin", !.response = NoResponse])
    /\ UNCHANGED <<num_of_chunks, upload_id, etags, retry_count,
                   result_status, header, sent, remote_id, phase, error>>
    /\ UNCHANGED <<client, storage, signer>>

(* ------------------------------ the probe ----------------------------- *)

\* int() of a string of decimal digits.
RECURSIVE ParseInt(_)
ParseInt(digits) ==
    IF Len(digits) = 0 THEN 0
    ELSE 10 * ParseInt(SubSeq(digits, 1, Len(digits) - 1)) + digits[Len(digits)]

\* get_file_header up to its request.
StartProbe ==
    /\ phase = "new"
    /\ header.state = "not called"
    /\ task[Main].pc = "idle"
    /\ retry_count' = [retry_count EXCEPT !["HEAD"] = 0]
    /\ Set(Main, NewRequest("get_file_header", "HEAD", "HEAD", {}, <<>>, <<>>, <<>>))
    /\ phase' = "probing"
    /\ UNCHANGED <<credentials, num_of_chunks, upload_id, etags,
                   result_status, header, sent, remote_id, error>>
    /\ UNCHANGED <<client, storage, signer>>

\* get_file_header on an object this client has uploaded.
StartProbeOfUploaded ==
    /\ phase = "done"
    /\ header.state = "not called"
    /\ task[Main].pc = "idle"
    /\ retry_count' = [retry_count EXCEPT !["HEAD"] = 0]
    /\ Set(Main, NewRequest("get_file_header", "HEAD", "HEAD", {}, <<>>, <<>>, <<>>))
    /\ phase' = "probing"
    /\ UNCHANGED <<credentials, num_of_chunks, upload_id, etags,
                   result_status, header, sent, remote_id, error>>
    /\ UNCHANGED <<client, storage, signer>>

\* encryption_metadata of the FileHeader: the triple of the three headers
\* when the key header holds something, none otherwise.
EncryptionOf(response) ==
    IF Truthy(response.key)
    THEN [is_none |-> FALSE, key |-> response.key, iv |-> response.iv,
          matdesc |-> response.matdesc]
    ELSE NoEncryption

\* What get_file_header gives for an answer: the job status it sets and what
\* it returns or raises.
ProbeOutcome_No404Branch(response) ==
    IF response.status_code = 200
    THEN [status |-> "UPLOADED",
          header |-> [state |-> "returned", is_none |-> FALSE,
                      digest |-> response.digest,
                      content_length |-> ParseInt(response.content_length),
                      encryption_metadata |-> EncryptionOf(response)]]
    ELSE [status |-> result_status,
          header |-> [NoHeader EXCEPT
                        !.state = IF RaisesForStatus(response) THEN "raised" ELSE "returned"]]

ProbeOutcome(response) ==
    IF response.status_code = 200
    THEN [status |-> "UPLOADED",
          header |-> [state |-> "returned", is_none |-> FALSE,
                      digest |-> response.digest,
                      content_length |-> ParseInt(response.content_length),
                      encryption_metadata |-> EncryptionOf(response)]]
    ELSE IF response.status_code = 404
    THEN [status |-> "NOT_FOUND_FILE",
          header |-> [NoHeader EXCEPT !.state = "returned"]]
    ELSE [status |-> result_status,
          header |-> [NoHeader EXCEPT
                        !.state = IF RaisesForStatus(response) THEN "raised" ELSE "returned"]]

\* get_file_header from the answer on.  An exception of the send leaves it.
FinishProbe ==
    /\ task[Main].pc = "handle"
    /\ task[Main].method = "get_file_header"
    /\ LET out == IF task[Main].exc /= None
                  THEN [status |-> result_status,
                        header |-> [NoHeader EXCEPT !.state = "raised"]]
                  ELSE ProbeOutcome(task[Main].response)
           exc == IF task[Main].exc /= None THEN task[Main].exc
                  ELSE IF out.header.state = "raised" THEN "HTTPError" ELSE None
       IN  /\ result_status' = out.status
           /\ header' = out.header
           /\ phase' = IF exc = None THEN "probed" ELSE "failed"
           /\ error' = exc
           /\ Set(Main, [task[Main] EXCEPT !.pc = IF exc = None THEN "done" ELSE "raised",
                                            !.exc = exc])
    /\ UNCHANGED <<credentials, num_of_chunks, upload_id, etags, retry_count,
                   sent, remote_id>>
    /\ UNCHANGED <<client, storage, signer>>

(* ------------------------- the multipart upload ----------------------- *)

\* The query of a part upload: chunk_url is built once, before the send, from
\* the upload id the client holds then (none is written "None").
PartQuery(chunk_id) ==
    {<<"partNumber", ToString(chunk_id + 1)>>, <<"uploadId", upload_id>>}

\* The metadata without the key of the encryption triple.
PrepareFileMetadata_KeyLeftOut ==
    LET s3_metadata == <<<<META_PREFIX \o SFC_DIGEST, Str(meta.sha256_digest)>>>>
    IN  IF ~encryption_metadata.is_none
        THEN Update(s3_metadata,
                    <<<<META_PREFIX \o AMZ_IV, Str(encryption_metadata.iv)>>,
                      <<META_PREFIX \o AMZ_MATDESC, Str(encryption_metadata.matdesc)>>>>)
        ELSE s3_metadata

\* _prepare_file_metadata: the digest, and the encryption triple when the
\* job has encryption metadata.
PrepareFileMetadata ==
    LET s3_metadata == <<<<META_PREFIX \o SFC_DIGEST, Str(meta.sha256_digest)>>>>
    IN  IF ~encryption_metadata.is_none
        THEN Update(s3_metadata,
                    <<<<META_PREFIX \o AMZ_IV, Str(encryption_metadata.iv)>>,
                      <<META_PREFIX \o AMZ_KEY, Str(encryption_metadata.key)>>,
                      <<META_PREFIX \o AMZ_MATDESC, Str(encryption_metadata.matdesc)>>>>)
        ELSE s3_metadata

\* {HTTP_HEADER_CONTENT_TYPE: HTTP_HEADER_VALUE_OCTET_STREAM}.
OctetStream == <<<<"Content-Type", Str("application/octet-stream")>>>>

\* _initiate_multipart_upload up to its request.
InitiateMultipartUpload ==
    /\ retry_count' = [retry_count EXCEPT !["Initiate"] = 0]
    /\ Set(Main, NewRequest("_initiate_multipart_upload", "POST", "Initiate",
                            {<<"uploads", "">>}, <<>>,
                            PrepareFileMetadata, OctetStream))

\* prepare_upload: the chunk plan decides between one request and a
\* multipart upload, which is initiated first.
PrepareUpload ==
    /\ phase = "new"
    /\ task[Main].pc = "idle"
    /\ IF num_of_chunks > 1
       THEN InitiateMultipartUpload /\ phase' = "initiating"
       ELSE phase' = "parts" /\ UNCHANGED <<retry_count, task>>
    /\ UNCHANGED <<credentials, num_of_chunks, upload_id, etags,
                   result_status, header, sent, remote_id, error>>
    /\ UNCHANGED <<client, storage, signer>>

\* The upload id in the answer to the initiate request: the text of the third
\* child of the document's root.
ParseUploadId(content) == content[3]

\* What _initiate_multipart_upload does with its answer.
InitiateOutcome_OneSlotShort(response) ==
    IF response.status_code = 200
    THEN [raised |-> FALSE, upload_id |-> ParseUploadId(response.content),
          etags |-> [is_none |-> FALSE, list |-> [i \in 0 .. (num_of_chunks - 2) |-> None]]]
    ELSE [raised |-> RaisesForStatus(response), upload_id |-> upload_id, etags |-> etags]

InitiateOutcome(response) ==
    IF response.status_code = 200
    THEN [raised |-> FALSE, upload_id |-> ParseUploadId(response.content),
          etags |-> [is_none |-> FALSE, list |-> [i \in 0 .. (num_of_chunks - 1) |-> None]]]
    ELSE [raised |-> RaisesForStatus(response), upload_id |-> upload_id, etags |-> etags]

\* _initiate_multipart_upload from the answer on; the driver goes on to the
\* part uploads when it returned, and gives up when it raised.
FinishInitiate ==
    /\ task[Main].pc = "handle"
    /\ task[Main].method = "_initiate_multipart_upload"
    /\ LET out == IF task[Main].exc /= None
                  THEN [raised |-> TRUE, upload_id |-> upload_id, etags |-> etags]
                  ELSE InitiateOutcome(task[Main].response)
       IN  /\ upload_id' = out.upload_id
           /\ etags' = out.etags
           /\ phase' = IF out.raised THEN "failed" ELSE "parts"
           /\ result_status' = IF out.raised THEN "ERROR" ELSE result_status
           /\ error' = IF out.raised
                       THEN (IF task[Main].exc /= None THEN task[Main].exc ELSE "HTTPError")
                       ELSE error
    /\ Set(Main, IdleTask)
    /\ UNCHANGED <<credentials, num_of_chunks, retry_count, header, sent, remote_id>>
    /\ UNCHANGED <<client, storage, signer>>

\* _upload_chunk up to its request: one PUT of the whole object, or the PUT
\* of part chunk_id + 1.
StartUploadChunk(chunk_id) ==
    /\ phase = "parts"
    /\ chunk_id < num_of_chunks
    /\ task[chunk_id].pc = "idle"
    /\ Set(chunk_id, NewRequest("_upload_chunk", "PUT", ChunkKey(chunk_id),
                                IF num_of_chunks = 1 THEN {} ELSE PartQuery(chunk_id),
                                <<>>,
                                IF num_of_chunks = 1 THEN PrepareFileMetadata ELSE <<>>,
                                IF num_of_chunks = 1 THEN OctetStream ELSE <<>>))
    /\ UNCHANGED <<credentials, num_of_chunks, upload_id, etags, retry_count,
                   result_status, header, sent, remote_id, phase, error>>
    /\ UNCHANGED <<client, storage, signer>>

\* The slot a part upload records its ETag at.
Slot_Shared(chunk_id) == 0

Slot(chunk_id) == chunk_id

\* What _upload_chunk does with its answer: the etags after it, and the
\* exception it ends with, if any.  Storing into etags while it is none is a
\* TypeError.
ChunkOutcome(chunk_id, response) ==
    IF num_of_chunks = 1
    THEN [etags |-> etags,
          exc |-> IF RaisesForStatus(response) THEN "HTTPError" ELSE None]
    ELSE IF response.status_code = 200
    THEN IF etags.is_none
         THEN [etags |-> etags, exc |-> "TypeError"]
         ELSE [etags |-> [etags EXCEPT !.list[Slot(chunk_id)] = response.ETag],
               exc |-> None]
    ELSE [etags |-> etags,
          exc |-> IF RaisesForStatus(response) THEN "HTTPError" ELSE None]

\* _upload_chunk from the answer on.
FinishUploadChunk(chunk_id) ==
    /\ chunk_id \in Chunks
    /\ task[chunk_id].pc = "handle"
    /\ task[chunk_id].method = "_upload_chunk"
    /\ LET out == IF task[chunk_id].exc /= None
                  THEN [etags |-> etags, exc |-> task[chunk_id].exc]
                  ELSE ChunkOutcome(chunk_id, task[chunk_id].response)
       IN  /\ etags' = out.etags
           /\ Set(chunk_id, Ended(chunk_id, IF out.exc = None THEN "done" ELSE "raised",
                                   out.exc))
    /\ UNCHANGED <<credentials, num_of_chunks, upload_id, retry_count,
                   result_status, header, sent, remote_id, phase, error>>
    /\ UNCHANGED <<client, storage, signer>>

\* The driver's counters of chunk operations that returned and that raised.
successful_transfers == Cardinality({i \in Chunks : task[i].pc = "done"})
failed_transfers == Cardinality({i \in Chunks : task[i].pc = "raised"})

\* The completion document with its parts numbered from 0.
CompletionDocument_ZeroBased(list) ==
    [idx \in 1 .. Cardinality(DOMAIN list) |->
        [ETag |-> list[idx - 1], PartNumber |-> ToString(idx - 1)]]

\* The completion document: one Part per slot, in the order of the slots.
CompletionDocument(list) ==
    [idx \in 1 .. Cardinality(DOMAIN list) |->
        [ETag |-> list[idx - 1], PartNumber |-> ToString(idx)]]

\* _complete_multipart_upload up to its request.  Enumerating etags while it
\* is none is a TypeError, raised before anything is sent.
CompleteMultipartUpload ==
    IF etags.is_none
    THEN /\ Set(Main, [IdleTask EXCEPT !.pc = "handle",
                                       !.method = "_complete_multipart_upload",
                                       !.exc = "TypeError"])
         /\ UNCHANGED retry_count
    ELSE /\ retry_count' = [retry_count EXCEPT !["Complete"] = 0]
         /\ Set(Main, NewRequest("_complete_multipart_upload", "POST", "Complete",
                                 {<<"uploadId", upload_id>>},
                                 CompletionDocument(etags.list), <<>>, <<>>))

\* _abort_multipart_upload with its test of the upload id inverted.
AbortMultipartUpload_GuardInverted ==
    IF upload_id /= None
    THEN /\ Set(Main, [IdleTask EXCEPT !.pc = "handle",
                                       !.method = "_abort_multipart_upload"])
         /\ UNCHANGED retry_count
    ELSE /\ retry_count' = [retry_count EXCEPT !["Abort"] = 0]
         /\ Set(Main, NewRequest("_abort_multipart_upload", "DELETE", "Abort",
                                 {<<"uploadId", upload_id>>}, <<>>, <<>>, <<>>))

\* _abort_multipart_upload without its test of the upload id.
AbortMultipartUpload_NoGuard ==
    /\ retry_count' = [retry_count EXCEPT !["Abort"] = 0]
    /\ Set(Main, NewRequest("_abort_multipart_upload", "DELETE", "Abort",
                            {<<"uploadId", upload_id>>}, <<>>, <<>>, <<>>))

\* _abort_multipart_upload up to its request; nothing happens without an
\* upload id.
AbortMultipartUpload ==
    IF upload_id = None
    THEN /\ Set(Main, [IdleTask EXCEPT !.pc = "handle",
                                       !.method = "_abort_multipart_upload"])
         /\ UNCHANGED retry_count
    ELSE /\ retry_count' = [retry_count EXCEPT !["Abort"] = 0]
         /\ Set(Main, NewRequest("_abort_multipart_upload", "DELETE", "Abort",
                                 {<<"uploadId", upload_id>>}, <<>>, <<>>, <<>>))

\* finish_upload, once every chunk operation has ended: complete when all of
\* them returned, abort otherwise.  One request has nothing to complete or abort.
FinishUpload ==
    /\ phase = "parts"
    /\ successful_transfers + failed_transfers = num_of_chunks
    /\ IF successful_transfers = num_of_chunks
       THEN IF num_of_chunks > 1
            THEN /\ CompleteMultipartUpload
                 /\ phase' = "completing"
                 /\ UNCHANGED <<result_status, error>>
            ELSE /\ phase' = "done"
                 /\ result_status' = "UPLOADED"
                 /\ UNCHANGED <<retry_count, task, error>>
       ELSE IF num_of_chunks > 1
            THEN /\ AbortMultipartUpload
                 /\ phase' = "aborting"
                 /\ UNCHANGED <<result_status, error>>
            ELSE /\ phase' = "failed"
                 /\ result_status' = "ERROR"
                 /\ error' = task[0].exc
                 /\ UNCHANGED <<retry_count, task>>
    /\ UNCHANGED <<credentials, num_of_chunks, upload_id, etags,
                   header, sent, remote_id>>
    /\ UNCHANGED <<client, storage, signer>>

\* _complete_multipart_upload from the answer on: raise_for_status.
FinishComplete ==
    /\ task[Main].pc = "handle"
    /\ task[Main].method = "_complete_multipart_upload"
    /\ LET exc == IF task[Main].exc /= None THEN task[Main].exc
                  ELSE IF RaisesForStatus(task[Main].response) THEN "HTTPError"
                  ELSE None
       IN  /\ phase' = IF exc = None THEN "done" ELSE "failed"
           /\ result_status' = IF exc = None THEN "UPLOADED" ELSE "ERROR"
           /\ error' = exc
    /\ Set(Main, IdleTask)
    /\ UNCHANGED <<credentials, num_of_chunks, upload_id, etags, retry_count,
                   header, sent, remote_id>>
    /\ UNCHANGED <<client, storage, signer>>

\* The failure of the first chunk operation that raised.
FirstFailure ==
    task[CHOOSE i \in Chunks : task[i].pc = "raised" /\
            \A j \in Chunks : task[j].pc = "raised" => i <= j].exc

\* _abort_multipart_upload from the answer on, and the end of finish_upload:
\* the failure that led to the abort is the one surfaced.
FinishAbort ==
    /\ task[Main].pc = "handle"
    /\ task[Main].method = "_abort_multipart_upload"
    /\ phase' = "failed"
    /\ result_status' = "ERROR"
    /\ error' = FirstFailure
    /\ Set(Main, IdleTask)
    /\ UNCHANGED <<credentials, num_of_chunks, upload_id, etags, retry_count,
                   header, sent, remote_id>>
    /\ UNCHANGED <<client, storage, signer>>

(* ---------------------------- the download --------------------------- *)

\* _range of a chunk with the last byte of the next chunk's first as its end.
Range_EndAtNextStart(chunk_id) ==
    IF chunk_id < num_of_chunks - 1
    THEN ToString(chunk_id * chunk_size) \o "-" \o ToString((chunk_id + 1) * chunk_size)
    ELSE ToString(chunk_id * chunk_size) \o "-"

\* _range of download_chunk: closed for every chunk but the last, open-ended
\* for the last.
Range(chunk_id) ==
    IF chunk_id < num_of_chunks - 1
    THEN ToString(chunk_id * chunk_size) \o "-" \o ToString((chunk_id + 1) * chunk_size - 1)
    ELSE ToString(chunk_id * chunk_size) \o "-"

\* {"Range": f"bytes={_range}"}.
RangeHeader(chunk_id) == <<<<"Range", Str("bytes=" \o Range(chunk_id))>>>>

\* The chunk a retry key of a chunk stands for.
ChunkOf(retry_id) == CHOOSE i \in Chunks \cup DownloadChunks : ChunkKey(i) = retry_id

\* The chunks whose download_chunk has returned.
Returned == DOMAIN downloaded

\* download_chunk up to its request, called by one worker for the chunks of
\* the plan in any order: one GET of the whole object, or the GET of the
\* chunk's byte range.
StartDownloadChunk(chunk_id) ==
    /\ phase \in {"new", "downloading"}
    /\ chunk_id < num_of_chunks
    /\ chunk_id \notin Returned
    /\ task[Main].pc = "idle"
    /\ Set(Main, NewRequest("download_chunk", "GET", ChunkKey(chunk_id), {}, <<>>, <<>>,
                            IF num_of_chunks = 1 THEN <<>> ELSE RangeHeader(chunk_id)))
    /\ phase' = "downloading"
    /\ UNCHANGED <<credentials, num_of_chunks, upload_id, etags, retry_count,
                   result_status, header, sent, remote_id, error>>
    /\ UNCHANGED <<client, storage, signer>>

\* What download_chunk does with its answer: whether it writes the content,
\* the job status it sets, and whether it raises.
DownloadOutcome(response) ==
    IF num_of_chunks = 1
    THEN [writes |-> response.status_code = 200,
          status |-> IF response.status_code = 200 THEN "DOWNLOADED" ELSE result_status,
          raised |-> RaisesForStatus(response)]
    ELSE [writes |-> response.status_code \in {200, 206},
          status |-> result_status,
          raised |-> RaisesForStatus(response)]

\* download_chunk from the answer on.  write_downloaded_chunk(chunk_id, data)
\* puts data at the offset chunk_id * chunk_size of the file; the download
\* ends when a chunk raises or every chunk has returned.
FinishDownloadChunk ==
    /\ task[Main].pc = "handle"
    /\ task[Main].method = "download_chunk"
    /\ LET chunk_id == ChunkOf(task[Main].retry_id)
           out == IF task[Main].exc /= None
                  THEN [writes |-> FALSE, status |-> result_status, raised |-> TRUE]
                  ELSE DownloadOutcome(task[Main].response)
           exc == IF task[Main].exc /= None THEN task[Main].exc
                  ELSE IF out.raised THEN "HTTPError" ELSE None
           ended == [written |-> out.writes,
                     status_code |-> task[Main].response.status_code,
                     data |-> IF out.writes THEN task[Main].response.content ELSE <<>>]
       IN  /\ downloaded' =
                 IF exc = None
                 THEN [i \in Returned \cup {chunk_id} |->
                          IF i = chunk_id THEN ended ELSE downloaded[i]]
                 ELSE downloaded
           /\ result_status' = IF exc = None THEN out.status ELSE "ERROR"
           /\ error' = exc
           /\ phase' = IF exc /= None THEN "failed"
                       ELSE IF Returned \cup {chunk_id} = 0 .. (num_of_chunks - 1)
                       THEN "done" ELSE "downloading"
    /\ Set(Main, IdleTask)
    /\ UNCHANGED <<credentials, num_of_chunks, upload_id, etags, retry_count,
                   header, sent, remote_id>>
    /\ UNCHANGED <<client, remote, files, dst_file_size, signer>>

\* One transfer: the upload of the job's file.
Next ==
    \/ PrepareUpload
    \/ FinishInitiate
    \/ \E i \in Chunks : StartUploadChunk(i)
    \/ \E i \in Chunks : FinishUploadChunk(i)
    \/ FinishUpload
    \/ FinishComplete
    \/ FinishAbort
    \/ \E t \in Tasks : BeginAttempt(t)
    \/ \E t \in Tasks : SignToken(t)
    \/ \E t \in Tasks : SignSecret(t)
    \/ \E t \in Tasks : SignAndSend(t)
    \/ \E t \in Tasks : RefreshCredentials(t)

Spec == Init /\ [][Next]_vars

\* The upload with its tasks scheduled: a task that can take a step is not
\* held back for ever.
SpecFair == Spec /\ WF_vars(Next)

\* One probe of the remote object.
NextProbe ==
    \/ StartProbe
    \/ FinishProbe
    \/ BeginAttempt(Main)
    \/ SignToken(Main)
    \/ SignSecret(Main)
    \/ SignAndSend(Main)
    \/ RefreshCredentials(Main)

SpecProbe == Init /\ [][NextProbe]_vars

\* Construction with credentials that hold a session token, and with
\* credentials that hold none.
InitSign ==
    /\ \E with_token \in BOOLEAN : InitTransfer(with_token)
    /\ InitClient(None, FALSE, FALSE, "d1", SomeEncryption)
    /\ InitStorage
    /\ InitSigner


\* The upload with one worker: the chunks are uploaded in turn.
StartUploadChunkInTurn(i) ==
    /\ \A j \in Chunks : j < i => task[j].pc \in {"done", "raised"}
    /\ StartUploadChunk(i)

\* A probe or an upload by one worker.
NextSign ==
    \/ StartProbe
    \/ FinishProbe
    \/ PrepareUpload
    \/ FinishInitiate
    \/ \E i \in Chunks : StartUploadChunkInTurn(i)
    \/ \E i \in Chunks : FinishUploadChunk(i)
    \/ FinishUpload
    \/ FinishComplete
    \/ FinishAbort
    \/ \E t \in Tasks : BeginAttempt(t)
    \/ \E t \in Tasks : SignToken(t)
    \/ \E t \in Tasks : SignSecret(t)
    \/ \E t \in Tasks : SignAndSend(t)
    \/ \E t \in Tasks : RefreshCredentials(t)

\* Every kind of request, signed with either kind of credentials.
SpecSign == InitSign /\ [][NextSign]_vars

\* Construction for a job with each digest, with and without encryption.
JobDigests == {"d1", "d2"}
InitMetadata ==
    /\ InitTransfer(TRUE)
    /\ \E d \in JobDigests, e \in {NoEncryption, SomeEncryption} :
          InitClient(None, FALSE, FALSE, d, e)
    /\ InitStorage
    /\ InitSigner

\* A probe, or an upload by one worker and then a probe of what it stored.
NextMetadata ==
    \/ StartProbe
    \/ StartProbeOfUploaded
    \/ FinishProbe
    \/ PrepareUpload
    \/ FinishInitiate
    \/ \E i \in Chunks : StartUploadChunkInTurn(i)
    \/ \E i \in Chunks : FinishUploadChunk(i)
    \/ FinishUpload
    \/ FinishComplete
    \/ FinishAbort
    \/ \E t \in Tasks : BeginAttempt(t)
    \/ \E t \in Tasks : SignToken(t)
    \/ \E t \in Tasks : SignSecret(t)
    \/ \E t \in Tasks : SignAndSend(t)
    \/ \E t \in Tasks : RefreshCredentials(t)

SpecMetadata == InitMetadata /\ [][NextMetadata]_vars

\* Header names in two letter cases, and the value each header carries: a
\* plain one, one with blanks to strip and collapse, and a list.
HeaderNames ==
    {"host", "Host", "x-amz-date", "X-Amz-Date",
     "x-amz-content-sha256", "X-Amz-Content-Sha256"}
HeaderValue(name) ==
    CASE lower(name) = "host" -> Str(" bucket.s3.amazonaws.com ")
      [] lower(name) = "x-amz-date" -> Str("20211104T000000Z")
      [] OTHER -> List(<<"e3b0  c442", "98fc">>)

\* The header sets of up to MaxHeaders headers, no two names alike but for
\* their case, in every order of insertion.
HeaderDicts ==
    UNION {{[i \in 1 .. n |-> <<names[i], HeaderValue(names[i])>>] :
                names \in {f \in [1 .. n -> HeaderNames] :
                             \A i, j \in 1 .. n : i /= j => lower(f[i]) /= lower(f[j])}} :
           n \in 1 .. MaxHeaders}

InitHeaders ==
    /\ InitTransfer(TRUE)
    /\ InitClient(None, FALSE, FALSE, "d1", SomeEncryption)
    /\ InitStorage
    /\ canonical_headers \in HeaderDicts
    /\ canonicalized = [state |-> "not called", exc |-> None, ans |-> "",
                        signed_headers |-> ""]

\* One call of _construct_canonicalized_and_signed_headers.
Canonicalize ==
    /\ canonicalized.state = "not called"
    /\ canonicalized' = ConstructCanonicalizedAndSignedHeaders(canonical_headers)
    /\ UNCHANGED <<credentials, num_of_chunks, upload_id, etags, retry_count,
                   result_status, header, task, sent, remote_id, phase, error,
                   client, storage, canonical_headers>>

SpecHeaders == InitHeaders /\ [][Canonicalize]_vars

\* Construction for every stage endpoint and every setting of the two flags.
InitEndpoint ==
    /\ InitTransfer(TRUE)
    /\ \E e \in EndPoints, accelerate \in BOOLEAN, regional \in BOOLEAN :
          InitClient(e, accelerate, regional, "d1", SomeEncryption)
    /\ InitStorage
    /\ InitSigner

\* A probe by a client constructed in each of these ways.
SpecEndpoint == InitEndpoint /\ [][NextProbe]_vars

\* The sizes of the object to download and of a chunk, and the object's
\* bytes: each byte is its place in the object.
MaxChunkSize == 2
ObjectOf(size) == [k \in 1 .. size |-> k]

\* Construction for the download of an object in chunks of chunk_size: the
\* plan has as many chunks as the object's size takes.
InitDownload ==
    /\ credentials = StorageCredential(TRUE)
    /\ chunk_size \in 1 .. MaxChunkSize
    /\ \E size \in 1 .. (MaxChunkSize * MaxDownloadChunks) :
          /\ (size + chunk_size - 1) \div chunk_size <= MaxDownloadChunks
          /\ num_of_chunks = (size + chunk_size - 1) \div chunk_size
          /\ remote = [uploaded |-> TRUE, metadata |-> <<>>, pending |-> <<>>,
                       content |-> ObjectOf(size)]
    /\ upload_id = None
    /\ etags = [is_none |-> TRUE, list |-> <<>>]
    /\ retry_count = [k \in RetryKeys |-> 0]
    /\ result_status = "PENDING"
    /\ header = NoHeader
    /\ task = [t \in Tasks |-> IdleTask]
    /\ sent = {}
    /\ remote_id = None
    /\ phase = "new"
    /\ error = None
    /\ stage_info = [location |-> StageLocation, region |-> StageRegion,
                     endPoint |-> None]
    /\ use_accelerate_endpoint = FALSE
    /\ use_s3_regional_url = FALSE
    /\ endpoint = Endpoint(stage_info, FALSE, FALSE)
    /\ encryption_metadata = NoEncryption
    /\ meta = [sha256_digest |-> "d1", dst_file_name |-> DstFileName,
               src_file_name |-> SrcFileName]
    /\ downloaded = <<>>
    /\ files = <<>>
    /\ dst_file_size = -1
    /\ InitSigner

\* The download of the job's file by one worker.
NextDownload ==
    \/ \E i \in DownloadChunks : StartDownloadChunk(i)
    \/ FinishDownloadChunk
    \/ BeginAttempt(Main)
    \/ SignToken(Main)
    \/ SignSecret(Main)
    \/ SignAndSend(Main)
    \/ RefreshCredentials(Main)

SpecDownload == InitDownload /\ [][NextDownload]_vars

(* -------------------------- the local backend ------------------------ *)

\* The bytes of the files here: a letter and the newline.
NewLine == 10
Letter == 97

\* Iterating a file opened "rb": its lines, each with the newline that ends
\* it, the last one with what is left.
RECURSIVE ReadLines_NewlinesDropped(_)
ReadLines_NewlinesDropped(data) ==
    IF data = <<>> THEN <<>>
    ELSE IF \E k \in 1 .. Len(data) : data[k] = NewLine
    THEN LET k == CHOOSE i \in 1 .. Len(data) :
                    data[i] = NewLine /\ \A j \in 1 .. (i - 1) : data[j] /= NewLine
         IN  <<SubSeq(data, 1, k - 1)>>
                \o ReadLines_NewlinesDropped(SubSeq(data, k + 1, Len(data)))
    ELSE <<data>>

RECURSIVE ReadLines(_)
ReadLines(data) ==
    IF data = <<>> THEN <<>>
    ELSE IF \E k \in 1 .. Len(data) : data[k] = NewLine
    THEN LET k == CHOOSE i \in 1 .. Len(data) :
                    data[i] = NewLine /\ \A j \in 1 .. (i - 1) : data[j] /= NewLine
         IN  <<SubSeq(data, 1, k)>> \o ReadLines(SubSeq(data, k + 1, Len(data)))
    ELSE <<data>>

\* output.writelines(lines): the lines one after the other.
RECURSIVE WriteLines(_)
WriteLines(lines) ==
    IF lines = <<>> THEN <<>> ELSE Head(lines) \o WriteLines(Tail(lines))

\* os.path.expanduser: a leading "~" stands for the home directory.
HomeDirectory == "/home/user"
ExpandUser(path) ==
    IF path /= "" /\ Head(path) = "~" /\ (Len(path) = 1 \/ Head(Tail(path)) = "/")
    THEN HomeDirectory \o Tail(path)
    ELSE path

\* os.path.join(a, b): b alone when it is absolute, else a, a separator
\* unless a is empty or ends with one, and b.
PathJoin(a, b) ==
    IF b /= "" /\ Head(b) = "/" THEN b
    ELSE IF a = "" \/ SubSeq(a, Len(a), Len(a)) = "/" THEN a \o b
    ELSE a \o "/" \o b

\* os.path.basename: what follows the last separator.
RECURSIVE BaseName(_)
BaseName(path) ==
    IF \E i \in 1 .. Len(path) : SubSeq(path, i, i) = "/"
    THEN BaseName(Tail(path))
    ELSE path

\* A job's stream: none, or the bytes it gives when read.
NoStream == [is_none |-> TRUE, data |-> <<>>]
Stream(data) == [is_none |-> FALSE, data |-> data]

\* frd of _upload_file_with_retry: the real source file when the job has no
\* source stream, else the real source stream, or the source stream.
SourceOfUpload ==
    IF meta.upload.src_stream.is_none
    THEN files[meta.upload.real_src_file_name]
    ELSE IF ~meta.upload.real_src_stream.is_none
    THEN meta.upload.real_src_stream.data
    ELSE meta.upload.src_stream.data

\* The file system with data written to the file at path.
Written(path, data) ==
    [p \in DOMAIN files \cup {path} |-> IF p = path THEN data ELSE files[p]]

\* The file a local upload writes.
StagedFile == PathJoin(ExpandUser(stage_info.location), meta.upload.dst_file_name)

\* _upload_file_with_retry of the local backend.
UploadFileWithRetry ==
    /\ phase = "new"
    /\ files' = Written(StagedFile, WriteLines(ReadLines(SourceOfUpload)))
    /\ dst_file_size' = meta.upload.upload_size
    /\ result_status' = "UPLOADED"
    /\ phase' = "uploaded"
    /\ UNCHANGED <<credentials, num_of_chunks, upload_id, etags, retry_count,
                   header, task, sent, remote_id, error>>
    /\ UNCHANGED <<client, remote, downloaded, signer>>

\* full_src_file_name and full_dst_file_name of _download_file.
FullSrcFileName ==
    PathJoin(ExpandUser(stage_info.location),
             IF ~(meta.download.src_file_name /= ""
                    /\ Head(meta.download.src_file_name) = "/")
             THEN meta.download.src_file_name
             ELSE Tail(meta.download.src_file_name))
FullDstFileName ==
    PathJoin(meta.download.local_location, BaseName(meta.download.dst_file_name))

\* _download_file of the local backend: opening a file that is not there
\* raises; the size recorded is that of the file written.
DownloadFile ==
    /\ phase \in {"new", "uploaded"}
    /\ IF FullSrcFileName \in DOMAIN files
       THEN /\ files' = Written(FullDstFileName, WriteLines(ReadLines(files[FullSrcFileName])))
            /\ dst_file_size' = Len(files'[FullDstFileName])
            /\ result_status' = "DOWNLOADED"
            /\ phase' = "done"
            /\ error' = error
       ELSE /\ phase' = "failed"
            /\ error' = "FileNotFoundError"
            /\ UNCHANGED <<files, dst_file_size, result_status>>
    /\ UNCHANGED <<credentials, num_of_chunks, upload_id, etags, retry_count,
                   header, task, sent, remote_id>>
    /\ UNCHANGED <<client, remote, downloaded, signer>>

\* The files of up to MaxFileSize bytes.
MaxFileSize == 3
Contents == UNION {[1 .. n -> {NewLine, Letter}] : n \in 0 .. MaxFileSize}

\* The source file of the upload job, and the stage and the names of the
\* two jobs of a round trip: the upload's destination is a base name, the
\* download names the staged file with or without a leading separator.
SourceFile == "/src/f.gz"
LocalStages == {"/stage", "~/stage/"}
UploadJobs ==
    {[src_stream |-> s, real_src_stream |-> r, real_src_file_name |-> SourceFile,
      dst_file_name |-> "f.gz", upload_size |-> u] :
        s \in {NoStream, Stream(<<Letter, NewLine>>)},
        r \in {NoStream, Stream(<<NewLine, Letter, Letter>>)},
        u \in 0 .. MaxFileSize}
DownloadJobs ==
    {[src_file_name |-> n, dst_file_name |-> d, local_location |-> "/local"] :
        n \in {"f.gz", "/f.gz"}, d \in {"f.gz", "out/f.gz"}}

InitLocal ==
    /\ InitTransfer(TRUE)
    /\ stage_info \in {[location |-> l, region |-> "", endPoint |-> None] : l \in LocalStages}
    /\ use_accelerate_endpoint = FALSE
    /\ use_s3_regional_url = FALSE
    /\ endpoint = None
    /\ encryption_metadata = NoEncryption
    /\ meta \in {[upload |-> u, download |-> d] : u \in UploadJobs, d \in DownloadJobs}
    /\ chunk_size = 1
    /\ remote = [uploaded |-> FALSE, metadata |-> <<>>, pending |-> <<>>,
                 content |-> <<>>]
    /\ downloaded = <<>>
    /\ files \in {[p \in {SourceFile} |-> c] : c \in Contents}
    /\ dst_file_size = -1
    /\ InitSigner

\* The local backend: an upload and a download, or a download of what no
\* upload has staged.
NextLocal ==
    \/ UploadFileWithRetry
    \/ DownloadFile

SpecLocal == InitLocal /\ [][NextLocal]_vars

(* ============================== properties ============================ *)

\* Task t holds the attempt it sent last, with its answer.
Attempted(t) == task[t].attempts > 0 /\ task[t].pc \in {"begin", "refresh", "handle"}

\* The requests that complete a multipart upload.
IsCompletion(r) == r.verb = "POST" /\ \E q \in r.query : q[1] = "uploadId"

\* Some part upload gave up at the attempt ceiling.
PartExhausted ==
    \E i \in Chunks : task[i].pc = "raised" /\ task[i].exc = "RequestExceedMaxRetryError"

\* The abort request for upload id u is on the wire.
AbortSent(u) == \E r \in sent : r.verb = "DELETE" /\ r.query = {<<"uploadId", u>>}

(* C1: no completion request is ever sent with an etag slot still none: every
   POST that completes a multipart upload lists an ETag for each of its parts. *)
C1_NoCompletionWithEmptySlot ==
    \A r \in sent :
        IsCompletion(r) => \A idx \in DOMAIN r.data : r.data[idx].ETag /= None

(* C2: when the service has assigned an upload id and a part upload has given
   up at the attempt ceiling, then by the time the failure is surfaced to the
   caller a DELETE carrying exactly that upload id has been sent. *)
C2_AbortBeforeErrorSurfaced ==
    (phase = "failed" /\ remote_id /= None /\ PartExhausted) => AbortSent(remote_id)

C2_Witness ==
    phase = "failed" /\ remote_id /= None /\ PartExhausted /\ AbortSent(remote_id)
        /\ error = "RequestExceedMaxRetryError"

\* The probe has ended on an answer with this status.
ProbeEndedOn(status) ==
    /\ task[Main].method = "get_file_header"
    /\ task[Main].pc \in {"done", "raised"}
    /\ task[Main].attempts > 0
    /\ task[Main].response.status_code = status

(* C3: a probe answered 404 returns none without raising and sets the job
   status to not-found; a probe answered 200 returns a FileHeader whose digest
   is the digest header and whose content length is the number the
   Content-Length header writes. *)
C3_ProbeSemantics ==
    /\ ProbeEndedOn(404) =>
          /\ task[Main].pc = "done" /\ error = None
          /\ header.state = "returned" /\ header.is_none
          /\ result_status = "NOT_FOUND_FILE"
    /\ ProbeEndedOn(200) =>
          /\ task[Main].pc = "done" /\ error = None
          /\ header.state = "returned" /\ ~header.is_none
          /\ header.digest = task[Main].response.digest
          /\ task[Main].response.content_length = <<7>> => header.content_length = 7
          /\ task[Main].response.content_length = <<1, 2>> => header.content_length = 12

C3_Witness ==
    ProbeEndedOn(404) /\ header.state = "returned" /\ header.is_none
        /\ result_status = "NOT_FOUND_FILE"

\* The probe has ended on an answer handed to get_file_header (the send itself
\* did not raise).
ProbeAnswered ==
    /\ task[Main].method = "get_file_header"
    /\ task[Main].pc \in {"done", "raised"}
    /\ task[Main].exc \in {None, "HTTPError"}

(* C4: the probe returns none only for a 404 answer; an answer with any other
   status than 200 and 404 is propagated as an error. *)
C4_NoneOnlyOnNotFound ==
    ProbeAnswered =>
        /\ (header.state = "returned" /\ header.is_none) =>
                task[Main].response.status_code = 404
        /\ task[Main].response.status_code \notin {200, 404} => header.state = "raised"

(* C5: an answer sends its task to the credential refresh exactly when its
   status is 400 and its body's error code is ExpiredToken. *)
C5_ExpiredExactlyOn400Marker ==
    \A t \in Tasks :
        (task[t].pc = "refresh") <=>
            (task[t].response.status_code = 400
                /\ task[t].response.text = XmlError(EXPIRED_TOKEN))

C5_Witness ==
    \E t \in Tasks :
        /\ task[t].pc = "refresh"
        /\ \E u \in Tasks : Attempted(u) /\ task[u].pc = "handle"
                /\ task[u].response.status_code = 403
                /\ task[u].response.text = XmlError(EXPIRED_TOKEN)

\* How far task t's current attempt has read the credentials.
HasToken(t) == task[t].pc \in {"sign_secret", "sign_key"} \/ Attempted(t)
HasSecret(t) == task[t].pc = "sign_key" \/ Attempted(t)

(* C6: when the credentials were renewed between two attempts of one request,
   the later attempt reads them anew: its security token, its secret (and so
   its signature) and its key id are values of the credentials as renewed or
   newer, and none is the value the earlier attempt used. *)
C6_NextAttemptUsesRefreshed ==
    \A t \in Tasks :
        task[t].refreshed =>
            /\ HasToken(t) =>
                  task[t].token >= task[t].cur_timestamp /\ task[t].token /= task[t].prev.token
            /\ HasSecret(t) =>
                  /\ task[t].secret >= task[t].cur_timestamp
                  /\ task[t].secret /= task[t].prev.secret
                  /\ Signature(SigningKey(task[t].secret), task[t].token)
                        /= Signature(SigningKey(task[t].prev.secret), task[t].prev.token)
            /\ Attempted(t) =>
                  /\ task[t].key_id >= task[t].cur_timestamp
                  /\ Authorization(t).Credential /= task[t].prev.key_id

C6_Witness ==
    \E t \in Tasks :
        /\ task[t].refreshed /\ Attempted(t) /\ task[t].pc = "handle"
        /\ task[t].exc = None /\ task[t].response.status_code = 200
        /\ task[t].token = credentials.creds.AWS_TOKEN
        /\ task[t].token > task[t].prev.token

(* C7: every signed attempt takes its security token, its secret key and its
   key id from one version of the credentials. *)
C7_OneCredentialVersionPerAttempt ==
    \A t \in Tasks :
        Attempted(t) => task[t].token = task[t].secret /\ task[t].secret = task[t].key_id

\* Chunk i's part upload was answered 200 and has returned.
PartStored(i) ==
    task[i].pc = "done" /\ task[i].response.status_code = 200

C8_Slots ==
    (num_of_chunks > 1 /\ ~etags.is_none) =>
        \A i \in 0 .. (num_of_chunks - 1) :
            /\ PartStored(i) => etags.list[i] = task[i].response.ETag
            /\ etags.list[i] /= None => PartStored(i) /\ etags.list[i] = ETagOf(ChunkKey(i))

C8_Frame ==
    \A i \in Chunks :
        /\ (/\ ~etags.is_none /\ ~etags'.is_none /\ i < num_of_chunks
            /\ etags'.list[i] /= etags.list[i]) =>
                /\ task[i].pc = "handle" /\ task'[i].pc = "done"
                /\ etags'.list[i] = task[i].response.ETag
                /\ \A j \in 0 .. (num_of_chunks - 1) : j /= i => etags'.list[j] = etags.list[j]
        /\ retry_count'[ChunkKey(i)] /= retry_count[ChunkKey(i)] =>
                /\ task[i].pc = "sign_key"
                /\ \A j \in Tasks : j /= i => task'[j] = task[j]
                /\ \A k \in RetryKeys : k /= ChunkKey(i) => retry_count'[k] = retry_count[k]

(* C8: in every interleaving of the part uploads, a slot of etags changes only
   by the part upload of its own chunk, which stores there the ETag of its own
   answer, and the retry counter of a chunk changes only by that chunk's own
   attempts; so a slot is filled exactly when its chunk's upload was answered
   200 and has returned, and then holds the ETag returned for that part. *)
C8_ChunksKeepToTheirSlots == [][C8_Frame]_vars /\ []C8_Slots

C8_Witness ==
    /\ num_of_chunks = MaxChunks /\ ~etags.is_none
    /\ \A i \in 0 .. (num_of_chunks - 1) :
          PartStored(i) /\ etags.list[i] = ETagOf(ChunkKey(i))
    /\ \E i \in Chunks : retry_count[ChunkKey(i)] > 0

\* len(self.etags), for etags that is a list.
LenEtags == Cardinality(DOMAIN etags.list)

(* C9, as claimed: in every state etags is a list of num_of_chunks slots. *)
C9_EtagsAlwaysSized ==
    ~etags.is_none /\ LenEtags = num_of_chunks

(* C9, amended: once etags is allocated (by an initiate request answered
   200), and from then on through completion or abort, it has exactly
   num_of_chunks slots, indexed from 0; until then it is none. *)
C9_EtagsSizedOnceAllocated ==
    /\ ~etags.is_none =>
          LenEtags = num_of_chunks /\ DOMAIN etags.list = 0 .. (num_of_chunks - 1)
    /\ etags.is_none <=> upload_id = None

C9_Witness ==
    ~etags.is_none /\ LenEtags = num_of_chunks /\ num_of_chunks = MaxChunks
        /\ phase \in {"done", "failed"}

\* The requests of the part-upload phase and the completion.
CarriesUploadId(r) == (r.verb = "PUT" /\ r.query /= {}) \/ IsCompletion(r)

(* C10: once _initiate_multipart_upload has returned, upload_id is the
   identifier the service assigned; every part PUT and the completion POST
   carry an upload id that is not none; and upload_id is none again only after
   completion or abort. *)
C10_UploadIdHeldThroughParts ==
    /\ (num_of_chunks > 1 /\ phase \in {"parts", "completing", "aborting"}) =>
            upload_id /= None /\ upload_id = remote_id
    /\ \A r \in sent : CarriesUploadId(r) => <<"uploadId", None>> \notin r.query
    /\ (upload_id = None /\ remote_id /= None /\ phase /= "initiating") =>
            phase \in {"done", "failed"}

\* The abort requests on the wire.
Deletes == {r \in sent : r.verb = "DELETE"}

\* The step in which finish_upload calls _abort_multipart_upload.
C11_AbortCalled == phase = "parts" /\ phase' = "aborting"

C11_Frame ==
    (C11_AbortCalled /\ upload_id = None) =>
        /\ sent' = sent
        /\ retry_count' = retry_count
        /\ UNCHANGED <<credentials, num_of_chunks, upload_id, etags, result_status,
                       header, remote_id, error>>
        /\ task'[Main].pc = "handle" /\ task'[Main].exc = None
        /\ task'[Main].attempts = 0

C11_State ==
    /\ \A r \in Deletes : upload_id /= None /\ r.query = {<<"uploadId", upload_id>>}
    /\ upload_id = None => Deletes = {} /\ retry_count["Abort"] = 0

(* C11: when _abort_multipart_upload is called while upload_id is none, no
   request is sent, no retry counter changes and no field of the client
   changes, and the call returns without raising; a DELETE is on the wire only
   when upload_id is not none, and then it carries that upload id. *)
C11_AbortIsNoOpWithoutUpload == [][C11_Frame]_vars /\ []C11_State

C11_Witness ==
    /\ phase = "failed" /\ num_of_chunks > 1 /\ upload_id = None
    /\ failed_transfers > 0 /\ error = FirstFailure
    /\ Deletes = {} /\ retry_count["Abort"] = 0

\* The completion requests on the wire.
Completions == {r \in sent : IsCompletion(r)}

(* C18: the document of every completion request has exactly one part per
   planned chunk; the part at position idx (from 1) has part number idx, so
   the parts are in ascending order of 1-based part numbers; its ETag is the
   value held at etags[idx - 1], which for a part whose upload was answered
   200 is the ETag of that answer, as returned. *)
C18_CompletionListsEveryPart ==
    \A r \in Completions :
        /\ DOMAIN r.data = 1 .. num_of_chunks
        /\ \A idx \in DOMAIN r.data :
              /\ r.data[idx].PartNumber = ToString(idx)
              /\ r.data[idx].ETag = etags.list[idx - 1]
              /\ PartStored(idx - 1) =>
                    /\ r.data[idx].ETag = task[idx - 1].response.ETag
                    /\ r.data[idx].ETag = ETagOf(ChunkKey(idx - 1))

C18_Witness ==
    /\ num_of_chunks = MaxChunks /\ phase = "done"
    /\ \E r \in Completions :
          \A idx \in 1 .. MaxChunks :
              PartStored(idx - 1) /\ r.data[idx].ETag = ETagOf(ChunkKey(idx - 1))
                /\ r.data[idx].PartNumber = ToString(idx)

\* A body that is not empty or blank and is not the service's error document:
\* it does not parse, or it has no Code element.
MalformedBody(text) ==
    text /= "" /\ ~IsSpace(text) /\ CodeOf(text) \in {"ParseError", "AttributeError"}

(* C20: an attempt answered 400 with a body that is not empty and is not the
   structured error document is classified as not expired without an
   exception, and its answer is handed back to the caller of the send. *)
C20_MalformedBodyIsNotExpired ==
    \A t \in Tasks :
        (Attempted(t) /\ task[t].response.status_code = 400
            /\ MalformedBody(task[t].response.text)) =>
                /\ HasExpiredToken(task[t].response) = "False"
                /\ task[t].pc = "handle" /\ task[t].exc = None

\* The transient failures of a retry key never pass the attempt ceiling, and a
\* send gives up with RequestExceedMaxRetryError only at the ceiling.
C15_WithinCeiling ==
    /\ \A k \in RetryKeys : retry_count[k] <= MaxRetry
    /\ \A t \in Tasks :
          task[t].exc = "RequestExceedMaxRetryError" =>
              retry_count[task[t].retry_id] = MaxRetry

\* The transfer has ended.
Ended_Transfer == phase \in {"done", "failed"}

\* When the transfer has ended no send is still under way, and a part upload
\* that gave up at the ceiling has ended the whole transfer in error.
C15_EndedMeansAllEnded ==
    Ended_Transfer =>
        /\ \A t \in Tasks : task[t].pc \in {"idle", "done", "raised"}
        /\ PartExhausted =>
              phase = "failed" /\ result_status = "ERROR" /\ error /= None

(* C15: no send goes on for ever: the attempts of a retry key that met a
   network failure or a 5xx answer never exceed the attempt ceiling, a send
   gives up only at the ceiling, and every transfer ends, with every send of
   it ended by a response or an error; a chunk upload that gave up at the
   ceiling ends the whole transfer in error. *)
C15_NoEndlessRetry ==
    /\ [](C15_WithinCeiling /\ C15_EndedMeansAllEnded)
    /\ <>Ended_Transfer

C15_Witness ==
    /\ phase = "failed" /\ PartExhausted /\ error = "RequestExceedMaxRetryError"
    /\ \E i \in Chunks : task[i].exc = "RequestExceedMaxRetryError"
            /\ retry_count[ChunkKey(i)] = MaxRetry

(* C13: the endpoint is the stage's own endpoint whenever that is not empty,
   whatever the two flags; else the accelerate endpoint when that flag is set,
   whatever the regional flag; else the regional endpoint when that flag is
   set; and the global endpoint only when none of the three is set.  Every
   request goes to the endpoint so chosen. *)
C13_EndpointPrecedence ==
    /\ Truthy(stage_info.endPoint) =>
          endpoint = "https://bucket." \o stage_info.endPoint
    /\ (~Truthy(stage_info.endPoint) /\ use_accelerate_endpoint) =>
          endpoint = "https://bucket.s3-accelerate.amazonaws.com"
    /\ (~Truthy(stage_info.endPoint) /\ ~use_accelerate_endpoint /\ use_s3_regional_url) =>
          endpoint = "https://bucket.s3.us-west-2.amazonaws.com"
    /\ (endpoint = "https://bucket.s3.amazonaws.com") <=>
          (~Truthy(stage_info.endPoint) /\ ~use_accelerate_endpoint /\ ~use_s3_regional_url)
    /\ \A r \in sent : r.url = endpoint \o "/dir/f%201.gz"

C13_Witness ==
    /\ Truthy(stage_info.endPoint) /\ use_accelerate_endpoint /\ use_s3_regional_url
    /\ \E r \in sent :
          r.url = "https://bucket.s3-fips.us-gov-west-1.amazonaws.com/dir/f%201.gz"

\* The names of the headers handed in, lower-cased, in ascending order.
LoweredSorted == sorted([i \in 1 .. Len(canonical_headers) |-> lower(canonical_headers[i][1])])

(* C14: for a header set with names in any letter case, handed in in any
   order, the canonicalization returns; its signed-headers list is the
   lower-cased names in ascending order joined by ";", and its canonical block
   has one line per header in that same order, each starting with the
   lower-cased name and ":". *)
C14_SortedByLoweredName ==
    canonicalized.state /= "not called" =>
        /\ canonicalized.state = "returned"
        /\ canonicalized.signed_headers = join(";", LoweredSorted)
        /\ canonicalized.ans =
              join("", [i \in 1 .. Len(LoweredSorted) |->
                    CanonicalLine(LoweredSorted[i],
                                  HeaderValue(LoweredSorted[i])) \o "\n"])

\* For names given in lower case the canonicalization does what C14 says.
C14_LowerCaseNames ==
    (canonicalized.state /= "not called"
        /\ \A i \in 1 .. Len(canonical_headers) :
                canonical_headers[i][1] = lower(canonical_headers[i][1]))
    => /\ canonicalized.state = "returned"
       /\ canonicalized.signed_headers = join(";", LoweredSorted)

C14_LowerCaseWitness ==
    /\ Keys(canonical_headers) = <<"x-amz-date", "host", "x-amz-content-sha256">>
    /\ canonicalized.state = "returned"
    /\ canonicalized.signed_headers = "host;x-amz-content-sha256;x-amz-date"
    /\ canonicalized.ans =
          "host:bucket.s3.amazonaws.com\nx-amz-content-sha256:e3b0 c442,98fc\n"
            \o "x-amz-date:20211104T000000Z\n"

\* The pieces of str.split(sep), for a separator of one character: each
\* piece runs from the start of the string or from behind a separator up to
\* the next separator or the end of the string.
Pieces(str, sep) ==
    LET seps == {i \in 1 .. Len(str) : Char(str, i) = sep}
        stops == seps \cup {Len(str) + 1}
        starts == {1} \cup {i + 1 : i \in seps}
        StopOf(a) == CHOOSE b \in stops : b >= a /\ \A c \in stops : c >= a => b <= c
    IN  {SubSeq(str, a, StopOf(a) - 1) : a \in starts}

\* The names in the signed-headers list of task t's attempt.
SignedNames(t) == Pieces(SignedHeaders(t), ";")

InjectedNames == {"x-amz-date", "x-amz-security-token", "host", "x-amz-content-sha256"}

\* What C17 says of the attempt task t holds.
C17_Attempt(t) ==
    LET x_amz_headers == task[t].x_amz_headers
        signed == SignedNames(t)
        sent_headers == RestHeaders(t)
    IN  /\ ~RaisesKeyError(x_amz_headers)
        /\ InjectedNames \subseteq signed
        /\ "AWS_TOKEN" \notin DOMAIN credentials.creds =>
              /\ HasKey(x_amz_headers, "x-amz-security-token")
              /\ Get(x_amz_headers, "x-amz-security-token") = Str("")
        /\ \A name \in signed :
              /\ HasKey(sent_headers, name)
              /\ Get(sent_headers, name) = Get(x_amz_headers, name)

(* C17: for every attempt sent, of every request: the four injected headers
   are in the signed-headers list; the security-token header is there with
   the empty string when the credentials hold no session token; and every
   header of the signed-headers list is in the headers sent, with the value
   that was signed. *)
C17_SignedHeaderSet == \A t \in Tasks : Attempted(t) => C17_Attempt(t)

C17_Witness ==
    /\ "AWS_TOKEN" \notin DOMAIN credentials.creds
    /\ Attempted(Main) /\ task[Main].method = "_initiate_multipart_upload"
    /\ task[Main].response.status_code = 200
    /\ Get(RestHeaders(Main), "x-amz-security-token") = Str("")
    /\ SignedHeaders(Main) =
          "host;x-amz-content-sha256;x-amz-date;x-amz-meta-sfc-digest;"
            \o "x-amz-meta-x-amz-iv;x-amz-meta-x-amz-key;x-amz-meta-x-amz-matdesc;"
            \o "x-amz-security-token"

\* The metadata the job's upload has to attach: the digest, and the key, the
\* iv and the material description exactly when the job has encryption
\* metadata, each with the job's value.
AttachedForJob(metadata) ==
    /\ MetadataGet(metadata, META_PREFIX \o SFC_DIGEST) = meta.sha256_digest
    /\ \A name \in {AMZ_KEY, AMZ_IV, AMZ_MATDESC} :
          HasKey(metadata, META_PREFIX \o name) <=> ~encryption_metadata.is_none
    /\ ~encryption_metadata.is_none =>
          /\ MetadataGet(metadata, META_PREFIX \o AMZ_KEY) = encryption_metadata.key
          /\ MetadataGet(metadata, META_PREFIX \o AMZ_IV) = encryption_metadata.iv
          /\ MetadataGet(metadata, META_PREFIX \o AMZ_MATDESC) = encryption_metadata.matdesc

\* The probe has returned a FileHeader.
ProbeGaveHeader == header.state = "returned" /\ ~header.is_none

\* C19: the metadata an upload attaches carries the digest always and the
\* key, iv and material description exactly when the job has encryption
\* metadata; a probe of the object so stored returns the job's digest and
\* the job's encryption metadata; and any probe rebuilds encryption metadata
\* exactly when the key header is there, none otherwise.
C19_MetadataRoundTrip ==
    /\ remote.pending /= <<>> => AttachedForJob(remote.pending)
    /\ remote.uploaded => AttachedForJob(remote.metadata)
    /\ ProbeGaveHeader =>
          /\ header.encryption_metadata.is_none <=> task[Main].response.key = None
          /\ ~header.encryption_metadata.is_none =>
                /\ header.encryption_metadata.key = task[Main].response.key
                /\ header.encryption_metadata.iv = task[Main].response.iv
                /\ header.encryption_metadata.matdesc = task[Main].response.matdesc
          /\ remote.uploaded =>
                /\ header.digest = meta.sha256_digest
                /\ header.encryption_metadata = encryption_metadata

\* A multipart upload with encryption metadata has been probed, and the
\* probe gave the triple back.
C19_Witness ==
    /\ num_of_chunks > 1
    /\ remote.uploaded
    /\ ProbeGaveHeader
    /\ ~encryption_metadata.is_none
    /\ header.encryption_metadata = encryption_metadata

\* The GET requests of the download sent so far, and the byte ranges that
\* their Range headers name.
Gets == {r \in sent : r.verb = "GET"}
RangesSent == {ParseRange(r.range) : r \in {g \in Gets : g.range /= None}}

\* The size of the object to download.
ObjectSize == Len(remote.content)

\* The chunk operation in hand has sent its request.
ChunkRequested ==
    task[Main].method = "download_chunk" /\ Attempted(Main)

\* The range of the request in hand is that of its chunk: from
\* chunk_id * chunk_size to (chunk_id + 1) * chunk_size - 1, and open-ended
\* from chunk_id * chunk_size for the last chunk.
C12_RangeOfChunk ==
    (num_of_chunks > 1 /\ ChunkRequested) =>
        LET chunk_id == ChunkOf(task[Main].retry_id)
            range == ParseRange(Get(task[Main].headers, "Range").text)
        IN  /\ range.first = chunk_id * chunk_size
            /\ chunk_id < num_of_chunks - 1 =>
                  range.last = (chunk_id + 1) * chunk_size - 1
            /\ chunk_id = num_of_chunks - 1 => range.last = OpenEnded

\* The ranges sent do not overlap, and once every chunk has returned they
\* are contiguous and take in every byte of the object exactly once.
C12_RangesPartition ==
    num_of_chunks > 1 =>
        /\ \A g \in Gets : g.range /= None
        /\ \A o \in 0 .. (ObjectSize - 1) :
              Cardinality({range \in RangesSent : o \in BytesOf(range, ObjectSize)}) <= 1
        /\ phase = "done" =>
              /\ Cardinality(RangesSent) = num_of_chunks
              /\ \E range \in RangesSent : range.first = 0
              /\ \A range \in RangesSent :
                    range.last /= OpenEnded =>
                        \E next \in RangesSent : next.first = range.last + 1
              /\ \A o \in 0 .. (ObjectSize - 1) :
                    Cardinality({range \in RangesSent :
                                    o \in BytesOf(range, ObjectSize)}) = 1

\* The bytes written at offset o of the file by the chunks that returned.
WrittenAt(o) ==
    {<<i, downloaded[i].data[o - i * chunk_size + 1]>> :
        i \in {j \in Returned : downloaded[j].written
                                  /\ o - j * chunk_size + 1 \in 1 .. Len(downloaded[j].data)}}

\* Once every chunk has been answered with the bytes of its range, every
\* byte of the file was written once, and is the object's byte.
C12_FileIsObject ==
    (num_of_chunks > 1 /\ phase = "done"
        /\ \A i \in Returned : downloaded[i].status_code = 206) =>
        \A o \in 0 .. (ObjectSize - 1) :
            \E i \in Returned : WrittenAt(o) = {<<i, remote.content[o + 1]>>}

\* C12: in a download of n > 1 chunks of size c, chunk i < n - 1 requests
\* the bytes i*c to (i+1)*c - 1 and the last chunk the bytes from (n-1)*c on;
\* the ranges do not overlap, they are contiguous, and together they take in
\* every byte of the object exactly once.
C12_DownloadRanges ==
    /\ C12_RangeOfChunk
    /\ C12_RangesPartition
    /\ C12_FileIsObject

\* A download in three chunks of two bytes has ended, each chunk answered
\* with the bytes of its range.
C12_Witness ==
    /\ num_of_chunks = 3 /\ chunk_size = 2
    /\ phase = "done"
    /\ \A i \in Returned : downloaded[i].status_code = 206
    /\ RangesSent = {[first |-> 0, last |-> 1], [first |-> 2, last |-> 3],
                     [first |-> 4, last |-> OpenEnded]}

\* C16: on the local backend, the upload records the declared upload size
\* as the final size; the download of what was uploaded writes a file with
\* the bytes of the upload's source, and records that file's size, which is
\* the size of the source, as the final size.
C16_LocalRoundTrip ==
    /\ phase = "uploaded" =>
          /\ result_status = "UPLOADED"
          /\ dst_file_size = meta.upload.upload_size
          /\ files[StagedFile] = SourceOfUpload
    /\ (phase = "done" /\ StagedFile \in DOMAIN files) =>
          /\ result_status = "DOWNLOADED"
          /\ files[FullDstFileName] = SourceOfUpload
          /\ dst_file_size = Len(SourceOfUpload)
    /\ (phase = "failed") => StagedFile \notin DOMAIN files

\* A file whose size is not the declared upload size, with a newline in it,
\* has been uploaded and downloaded back.
C16_Witness ==
    /\ phase = "done"
    /\ StagedFile \in DOMAIN files
    /\ meta.upload.src_stream.is_none
    /\ files[SourceFile] = <<Letter, NewLine, Letter>>
    /\ files[FullDstFileName] = <<Letter, NewLine, Letter>>
    /\ meta.upload.upload_size = 1 /\ dst_file_size = 3
    /\ meta.download.src_file_name = "/f.gz"

\* C21: a multipart _upload_chunk that has returned, whatever the status of
\* its answer, has left the answer's ETag at the slot of its chunk.
C21_ReturnedPartHasETag ==
    \A i \in Chunks :
        (num_of_chunks > 1 /\ task[i].method = "_upload_chunk" /\ task[i].pc = "done") =>
            /\ ~etags.is_none
            /\ etags.list[i] /= None
            /\ etags.list[i] = task[i].response.ETag

\* C22: a download_chunk that has returned, whatever the status of its
\* answer, has written the chunk's bytes, and on the single-request path has
\* set the job's status to downloaded.
C22_ReturnedDownloadHasWritten ==
    \A i \in Returned :
        /\ downloaded[i].written
        /\ num_of_chunks = 1 => result_status = "DOWNLOADED"

====
